---- MODULE Spec2Model ----
(***************************************************************************)
(* Model of ext/management.py: the ChannelManagement component.  The       *)
(* component caches the channel's game and title, stamps the time of its   *)
(* own !game / !title changes, announces the channel_update events it did  *)
(* not cause, keeps a title history table and prunes it on stream_offline. *)
(*                                                                         *)
(* Handlers are coroutines.  A step of the model is the code a coroutine   *)
(* runs between two awaits; a coroutine suspended at an await is an entry  *)
(* of `handlers` (channel_update) or the value of `tracking`              *)
(* (start_tracking).  The command callbacks read no component field after  *)
(* an await that they wrote or read before it, so each is one step.        *)
(***************************************************************************)
EXTENDS Integers, Sequences, FiniteSets, TLC

\* ------------------------------------------------------------------ time
\* The clock counts ticks of 1/Hz second, so that durations between two
\* whole seconds exist (datetime keeps microseconds).
Hz == 2
SecondsPerDay == 86400
WindowSeconds == 15
PruneDays == 30
StartupHours == 1

Second == Hz
Hour == 3600 * Second
Day == SecondsPerDay * Second

\* datetime.timedelta.seconds of a difference of d ticks: the seconds field
\* of the normalised (days, seconds, microseconds) triple, 0 .. 86399.
TimedeltaSeconds(d) == (d \div Hz) % SecondsPerDay

\* ---------------------------------------------------------------- bounds
\* Spec: every operation.  SpecEvents: the events and the start-up task only,
\* in longer runs with more coroutines suspended at once.
MaxSteps == 2       \* Spec: clock advances, channel changes and modify_channel calls of a run
MaxHandlers == 1    \* Spec: channel_update coroutines suspended at an await
MaxEventSteps == 3  \* SpecEvents: clock advances and channel changes of a run
MaxOverlap == 2     \* SpecEvents: channel_update coroutines suspended at an await
MaxWindowSteps == 3 \* SpecWindows: clock advances, channel changes and modify_channel calls of a run
MaxTitleSteps == 3  \* SpecTitles: clock advances, channel changes and modify_channel calls of a run
MaxHandled == 2      \* events counted after a failed !game
MaxQueue == 1       \* channel_update events in flight
MaxOffset == 3      \* largest offset / number argument tried

\* Clock advances tried: one tick, the window, a day less the startup hour.
Advances == {1, WindowSeconds * Second, Day - StartupHours * Hour}

\* ------------------------------------------------------------ the channel
Titles == {"t1", "t2", "t3"}
NoCategory == ""
\* The game catalogue of the platform: name -> id.
GameIds == [n \in {"Dota 2", "Elden Ring"} |-> IF n = "Dota 2" THEN "29595" ELSE "512953"]
GameNames == DOMAIN GameIds
CategoryNames == GameNames \cup {NoCategory}
\* category_name of a game id; "0" is the uncategorised channel.
CategoryOf(id) == IF id = "0" THEN NoCategory ELSE CHOOSE n \in GameNames : GameIds[n] = id

\* Arguments tried for !game.
GameArgs == {"", "clear", "Clear", "dota", "nosuch"}
\* A comparison that would take the argument as typed.
AsTyped(s) == s
\* str.lower() on the arguments tried.
Lower(s) == IF s = "Clear" THEN "clear" ELSE s
\* game_keywords.get(game_name, game_name)
game_keywords(s) == IF s = "dota" THEN "Dota 2" ELSE IF s = "er" THEN "Elden Ring" ELSE s
\* bot.fetch_games(names=[name]): the games of that name.
fetch_games(name) == IF name \in GameNames THEN <<[id |-> GameIds[name], name |-> name]>> ELSE <<>>

VARIABLES
    game_tracked,       \* self.game_tracked
    title_tracked,      \* self.title_tracked
    game_updated_dt,    \* self.game_updated_dt
    title_updated_dt,   \* self.title_updated_dt
    tracking,           \* the start_tracking task: [pc, info]
    handlers,           \* suspended channel_update coroutines: Seq of [update, now, pc]
    ttv_stream_titles,  \* the table: set of rows [title, edit_time]
    channel,            \* the channel at the platform: [game_name, title]
    events,             \* channel_update payloads not yet delivered
    clock,              \* datetime.now(UTC), in ticks
    last,               \* what the last step was and what it sent and called
    previous,           \* the title the channel had before its current one
    delivered,          \* 1 once a channel_update event was delivered since startup
    attempt,            \* how the !game changes went, and the events handled since
    budget              \* what the run may still do: [steps, handlers]

tracker == <<game_tracked, title_tracked, game_updated_dt, title_updated_dt>>
ghost == <<previous, delivered, budget, attempt>>
vars == <<game_tracked, title_tracked, game_updated_dt, title_updated_dt, tracking,
          handlers, ttv_stream_titles, channel, events, clock, last, previous,
          delivered, budget, attempt>>

NoUpdate == [category_name |-> "-", title |-> "-"]
\* A call of the platform's API.
Call(name, key, value) == <<name, key, value>>
\* The record of a step: the operation, for a coroutine the payload it handles,
\* where it resumed and whether it ran to its end, the chat messages sent and
\* the API calls made.
Step(op, update, from, done, msgs, calls) ==
    [op |-> op, update |-> update, now |-> 0, before |-> NoUpdate, from |-> from,
     done |-> done, msgs |-> msgs, calls |-> calls]
\* The record of a step of a channel_update coroutine: also its `now` and the
\* tracked game and title it found.
HandlerStep(update, now, from, done, msgs) ==
    [op |-> "channel_update", update |-> update, now |-> now,
     before |-> [category_name |-> game_tracked, title |-> title_tracked],
     from |-> from, done |-> done, msgs |-> msgs, calls |-> <<>>]

\* The last step was a command that only replied: it wrote no field, no row
\* and called no modify_channel.  The runs that continue after such a step are
\* the runs without it, so they are explored from the state before it.
Commands == {"game", "title", "title set", "title restore", "title history"}
OnlyReplied ==
    /\ last.op \in Commands
    /\ \A i \in DOMAIN last.calls : last.calls[i][1] # "modify_channel"

\* Rows of earlier runs of the process: the table outlives it, and the title
\* may have changed while the bot was down.
Persisted ==
    { {},
      {[title |-> "t1", edit_time |-> 0 - 2 * Hour],
       [title |-> "t2", edit_time |-> 0 - PruneDays * Day],
       [title |-> "t3", edit_time |-> 0 - PruneDays * Day - 1]} }

\* ChannelManagement.__init__, in a process started at clock 0.
Constructed(b) ==
    /\ game_tracked = "idk"
    /\ title_tracked = "idk"
    /\ clock = 0
    /\ game_updated_dt = clock - StartupHours * Hour
    /\ title_updated_dt = clock - StartupHours * Hour
    /\ tracking = [pc |-> "start", info |-> NoUpdate]
    /\ handlers = <<>>
    /\ ttv_stream_titles \in Persisted
    /\ channel \in [game_name : {"Dota 2"}, title : {"t1"}]
    /\ events = <<>>
    /\ last = Step("init", NoUpdate, "", TRUE, <<>>, <<>>)
    /\ previous = "none"
    /\ delivered = 0
    /\ attempt = [game |-> "none", handled |-> 0]
    /\ budget = b

Init == Constructed([steps |-> MaxSteps, handlers |-> MaxHandlers])


\* ------------------------------------------------------------ the platform
Payload(c) == [category_name |-> c.game_name, title |-> c.title]

\* The platform sets the channel and sends channel_update.
PlatformSet(new) ==
    /\ Len(events) < MaxQueue
    /\ channel' = new
    /\ events' = Append(events, Payload(new))
    /\ previous' = IF new.title # channel.title THEN channel.title ELSE previous

\* modify_channel as the platform applies it: the call either fails (ok is
\* FALSE: nothing happens there) or sets the channel.
PlatformModify(new, ok) ==
    /\ budget.steps > 0
    /\ budget' = [budget EXCEPT !.steps = @ - 1]
    /\ IF ok THEN PlatformSet(new) ELSE UNCHANGED <<channel, events, previous>>

\* Somebody else (the dashboard, another tool) changes the game or the title.
ExternalChange ==
    \E g \in CategoryNames, t \in Titles :
        /\ ~OnlyReplied
        /\ [game_name |-> g, title |-> t] # channel
        /\ budget.steps > 0
        /\ budget' = [budget EXCEPT !.steps = @ - 1]
        /\ PlatformSet([game_name |-> g, title |-> t])
        /\ last' = Step("external", NoUpdate, "", TRUE, <<>>, <<>>)
        /\ UNCHANGED <<tracker, tracking, handlers, ttv_stream_titles, clock,
                       delivered, attempt>>

\* Time passes.
Advance ==
    \E d \in Advances :
        /\ ~OnlyReplied
        /\ budget.steps > 0
        /\ clock' = clock + d
        /\ budget' = [budget EXCEPT !.steps = @ - 1]
        /\ last' = Step("advance", NoUpdate, "", TRUE, <<>>, <<>>)
        /\ UNCHANGED <<tracker, tracking, handlers, ttv_stream_titles, channel, events,
                       previous, delivered, attempt>>

\* --------------------------------------------------------- start_tracking
\* The request of fetch_channel_info is answered with the channel as it is.
fetch_channel_info ==
    /\ ~OnlyReplied
    /\ tracking.pc = "start"
    /\ tracking' = [pc |-> "fetch", info |-> Payload(channel)]
    /\ last' = Step("start_tracking", NoUpdate, "start", FALSE, <<>>,
                    <<Call("fetch_channel_info", "", "")>>)
    /\ UNCHANGED <<tracker, handlers, ttv_stream_titles, channel, events, clock, ghost>>

\* The coroutine resumes with the answer and sets the tracked fields.
start_tracking ==
    /\ ~OnlyReplied
    /\ tracking.pc = "fetch"
    /\ game_tracked' = tracking.info.category_name
    /\ title_tracked' = tracking.info.title
    /\ tracking' = [tracking EXCEPT !.pc = "done"]
    /\ last' = Step("start_tracking", tracking.info, "fetch", TRUE, <<>>, <<>>)
    /\ UNCHANGED <<game_updated_dt, title_updated_dt, handlers, ttv_stream_titles,
                   channel, events, clock, ghost>>

\* --------------------------------------------------------- channel_update
\* An insert that would leave the row of a title already there as it is.
InsertIfAbsent(table, title, now) ==
    IF \E r \in table : r.title = title THEN table
    ELSE table \cup {[title |-> title, edit_time |-> now]}

\* INSERT ... ON CONFLICT (title) DO UPDATE SET edit_time = $2
Upsert(table, title, now) ==
    {r \in table : r.title # title} \cup {[title |-> title, edit_time |-> now]}

\* The condition without the time check.
GameChangedAnyTime(update, now) == game_tracked # update.category_name

\* A condition whose window would close with the first event handled after a
\* failed !game.
GameChangedOnce(update, now) ==
    /\ game_tracked # update.category_name
    /\ \/ attempt.handled > 0
       \/ TimedeltaSeconds(now - game_updated_dt) > WindowSeconds

\* line 187: the game announcement condition.
GameChanged(update, now) ==
    /\ game_tracked # update.category_name
    /\ TimedeltaSeconds(now - game_updated_dt) > WindowSeconds

\* line 193: the title announcement condition.
TitleChanged(update, now) ==
    /\ title_tracked # update.title
    /\ TimedeltaSeconds(now - title_updated_dt) > WindowSeconds

\* A condition that would record a title only outside the window.
TitleDiffersOutsideWindow(update) ==
    /\ title_tracked # update.title
    /\ TimedeltaSeconds(clock - title_updated_dt) > WindowSeconds

\* line 199: the title is to be recorded.
TitleDiffers(update) == title_tracked # update.title

Ran(msgs, execute, pc) == [msgs |-> msgs, execute |-> execute, pc |-> pc]

\* The code from a resumption point to the next await (pc: where the
\* coroutine resumes) or to the end of the handler (pc = "done").
RunRecord(update) ==
    IF TitleDiffers(update) THEN Ran(<<>>, TRUE, "assign") ELSE Ran(<<>>, FALSE, "done")
RunTitle(update, now) ==
    IF TitleChanged(update, now)
    THEN Ran(<<<<"Title was changed to", update.title>>>>, FALSE, "record")
    ELSE RunRecord(update)
RunGame(update, now) ==
    IF GameChanged(update, now)
    THEN Ran(<<<<"Game was changed to", update.category_name>>>>, FALSE, "title_check")
    ELSE RunTitle(update, now)
Run(update, now, pc) ==
    CASE pc = "start" -> RunGame(update, now)
      [] pc = "title_check" -> RunTitle(update, now)
      [] pc = "record" -> RunRecord(update)
      [] pc = "assign" -> Ran(<<>>, FALSE, "done")

\* Bookkeeping: one more handler ran to its end since the failed !game.
Handled(a) ==
    IF a.game = "failed" /\ a.handled < MaxHandled
    THEN [a EXCEPT !.handled = @ + 1] ELSE a

\* What a run of the handler from `from` does to the component and the table.
Handle(update, now, from, rest) ==
    LET r == Run(update, now, from) IN
    /\ r.pc # "done" => Len(rest) < budget.handlers
    /\ ttv_stream_titles' = IF r.execute THEN Upsert(ttv_stream_titles, update.title, now)
                            ELSE ttv_stream_titles
    /\ IF r.pc = "done"
       THEN /\ game_tracked' = update.category_name
            /\ title_tracked' = update.title
            /\ handlers' = rest
       ELSE /\ UNCHANGED <<game_tracked, title_tracked>>
            /\ handlers' = Append(rest, [update |-> update, now |-> now, pc |-> r.pc])
    /\ last' = HandlerStep(update, now, from, r.pc = "done", r.msgs)
    /\ attempt' = IF r.pc = "done" THEN Handled(attempt) ELSE attempt
    /\ UNCHANGED <<game_updated_dt, title_updated_dt, tracking, channel, clock, previous,
                   budget>>

\* A channel_update event is delivered: the listener starts.
channel_update ==
    /\ ~OnlyReplied
    /\ events # <<>>
    /\ events' = Tail(events)
    /\ delivered' = 1
    /\ Handle(Head(events), clock, "start", handlers)

RemoveAt(s, i) == SubSeq(s, 1, i - 1) \o SubSeq(s, i + 1, Len(s))

\* A suspended listener resumes after its await.
channel_update_resume ==
    \E i \in 1..Len(handlers) :
        /\ ~OnlyReplied
        /\ Handle(handlers[i].update, handlers[i].now, handlers[i].pc, RemoveAt(handlers, i))
        /\ UNCHANGED <<events, delivered>>

\* ----------------------------------------------------- clear_the_database
\* A deletion that would take the row at the cutoff as well.
DeleteOlderOrEqual(table, cutoff_dt) == {r \in table : r.edit_time > cutoff_dt}

\* DELETE FROM ttv_stream_titles WHERE edit_time < $1
DeleteOlder(table, cutoff_dt) == {r \in table : ~(r.edit_time < cutoff_dt)}

clear_the_database ==
    /\ ~OnlyReplied
    /\ ttv_stream_titles' = DeleteOlder(ttv_stream_titles, clock - PruneDays * Day)
    /\ last' = Step("clear_the_database", NoUpdate, "", TRUE, <<>>, <<>>)
    /\ UNCHANGED <<tracker, tracking, handlers, channel, events, clock, ghost>>


\* --------------------------------------------------------------- commands
Did(stamp, modify, msgs, calls) ==
    [stamp |-> stamp, modify |-> modify, msgs |-> msgs, calls |-> calls]

\* A search without a match that would stamp the change time all the same.
StampedNotFound(name) ==
    Did(TRUE, "none", <<<<"Couldn't find any games with such a name", "">>>>,
        <<Call("fetch_games", "names", name)>>)

\* The search has no game of that name: say so and return.
NotFound(name) ==
    Did(FALSE, "none", <<<<"Couldn't find any games with such a name", "">>>>,
        <<Call("fetch_games", "names", name)>>)

\* !game [game_name], by a chatter who is a moderator or not.  ok: whether
\* modify_channel succeeds; up: whether fetch_games answers.  The result:
\* whether game_updated_dt is stamped, the game_id modify_channel is called
\* with ("none": no call), the messages sent, the provider calls made.
game_does(mod, game_name, ok, up) ==
    IF game_name = ""
    THEN Did(FALSE, "none",
             <<<<"current game", IF channel.game_name = "" THEN "No game category"
                                 ELSE channel.game_name>>>>,
             <<Call("fetch_channel_info", "", "")>>)
    ELSE IF ~mod
    THEN Did(FALSE, "none", <<<<"Only moderators are allowed to change game name", "">>>>, <<>>)
    ELSE IF Lower(game_name) = "clear"
    THEN Did(TRUE, "0",
             IF ok THEN <<<<"Set game to", "No game category">>>> ELSE <<>>,
             <<Call("modify_channel", "game_id", "0")>>)
    ELSE LET name == game_keywords(game_name)
             games == fetch_games(name)
         IN  IF ~up
             THEN Did(FALSE, "none", <<>>, <<Call("fetch_games", "names", name)>>)
             ELSE IF games = <<>>
             THEN NotFound(name)
             ELSE Did(TRUE, games[1].id,
                      IF ok THEN <<<<"Changed game to", games[1].name>>>> ELSE <<>>,
                      <<Call("fetch_games", "names", name),
                        Call("modify_channel", "game_id", games[1].id)>>)

\* Bookkeeping: "changed" once a !game changed the channel; "failed" while
\* the only !game attempts that stamped had their modify_channel call fail.
Attempted(a, ok) ==
    IF ok \/ a.game = "changed" THEN [game |-> "changed", handled |-> 0]
    ELSE [game |-> "failed", handled |-> 0]

game_command(mod, game_name, ok, up) ==
    LET r == game_does(mod, game_name, ok, up) IN
    /\ ~OnlyReplied
    /\ game_updated_dt' = IF r.stamp THEN clock ELSE game_updated_dt
    /\ IF r.modify # "none"
       THEN PlatformModify([channel EXCEPT !.game_name = CategoryOf(r.modify)], ok)
       ELSE UNCHANGED <<channel, events, previous, budget>>
    /\ last' = Step("game", NoUpdate, "", TRUE, r.msgs, r.calls)
    /\ attempt' = IF r.modify # "none" THEN Attempted(attempt, ok) ELSE attempt
    /\ UNCHANGED <<game_tracked, title_tracked, title_updated_dt, tracking, handlers,
                   ttv_stream_titles, clock, delivered>>

\* The outcomes of the calls that matter to a !game: those of a call not
\* made are not told apart.
game ==
    \E mod \in BOOLEAN, game_name \in GameArgs :
        \E up \in IF mod /\ game_name # "" /\ Lower(game_name) # "clear"
                  THEN BOOLEAN ELSE {TRUE} :
            \E ok \in IF game_does(mod, game_name, TRUE, up).modify # "none"
                      THEN BOOLEAN ELSE {TRUE} :
                game_command(mod, game_name, ok, up)

\* A helper that would stamp only a change the platform accepted.
update_title_then_stamp(title, ok) ==
    /\ title_updated_dt' = IF ok THEN clock ELSE title_updated_dt
    /\ PlatformModify([channel EXCEPT !.title = title], ok)

\* update_title: stamp, then modify_channel(title=title).
update_title(title, ok) ==
    /\ title_updated_dt' = clock
    /\ PlatformModify([channel EXCEPT !.title = title], ok)

\* A title command that would stamp the change time although it asks the
\* platform for nothing.
StampWithoutChange ==
    /\ title_updated_dt' = clock
    /\ UNCHANGED <<channel, events, previous, budget>>

\* A title command that changes nothing at the component or the platform.
NoTitleChange == UNCHANGED <<title_updated_dt, channel, events, previous, budget>>

TitleFrame == UNCHANGED <<game_tracked, title_tracked, game_updated_dt, tracking, handlers,
                          ttv_stream_titles, clock, delivered, attempt>>

\* !title [title]
title_group_command(mod, title, ok) ==
    /\ ~OnlyReplied
    /\ IF title = ""
       THEN /\ NoTitleChange
            /\ last' = Step("title", NoUpdate, "", TRUE, <<<<"current title", channel.title>>>>,
                            <<Call("fetch_channel_info", "", "")>>)
       ELSE IF ~mod
       THEN /\ NoTitleChange
            /\ last' = Step("title", NoUpdate, "", TRUE,
                            <<<<"Only moderators are allowed to change title", "">>>>, <<>>)
       ELSE /\ update_title(title, ok)
            /\ last' = Step("title", NoUpdate, "", TRUE,
                            IF ok THEN <<<<"Changed title to", title>>>> ELSE <<>>,
                            <<Call("modify_channel", "title", title)>>)
    /\ TitleFrame

title_group ==
    \E mod \in BOOLEAN, title \in Titles \cup {""} :
        \E ok \in IF mod /\ title # "" THEN BOOLEAN ELSE {TRUE} :
            title_group_command(mod, title, ok)

\* !title set <title>; commands.is_moderator() refuses the others before the
\* callback runs.
title_set_command(mod, title, ok) ==
    /\ ~OnlyReplied
    /\ IF ~mod
       THEN /\ NoTitleChange
            /\ last' = Step("title set", NoUpdate, "", TRUE, <<>>, <<>>)
       ELSE /\ update_title(title, ok)
            /\ last' = Step("title set", NoUpdate, "", TRUE,
                            IF ok THEN <<<<"Set title to", title>>>> ELSE <<>>,
                            <<Call("modify_channel", "title", title)>>)
    /\ TitleFrame

title_set ==
    \E mod \in BOOLEAN, title \in Titles :
        \E ok \in IF mod THEN BOOLEAN ELSE {TRUE} :
            title_set_command(mod, title, ok)

\* ORDER BY edit_time DESC: the orders the database may return the rows in
\* (rows of equal edit_time come in either order).
OrderByEditTimeDesc(table) ==
    {s \in [1..Cardinality(table) -> table] :
        /\ \A i, j \in DOMAIN s : i # j => s[i] # s[j]
        /\ \A i, j \in DOMAIN s : i < j => s[i].edit_time >= s[j].edit_time}

\* LIMIT limit OFFSET offset of the ordered rows.
LimitOffset(rows, limit, offset) ==
    SubSeq(rows, offset + 1, IF offset + limit < Len(rows) THEN offset + limit ELSE Len(rows))

\* A query that would count offsets from the row after the newest one.
RestoreQuerySkippingCurrent(rows, offset) ==
    LET got == LimitOffset(rows, 1, offset + 1) IN
    IF got = <<>> THEN "None" ELSE got[1].title

\* SELECT title ... ORDER BY edit_time DESC LIMIT 1 OFFSET $1 (fetchval):
\* the title, or "None" when there is no row.
RestoreQuery(rows, offset) ==
    LET got == LimitOffset(rows, 1, offset) IN
    IF got = <<>> THEN "None" ELSE got[1].title

\* A query that would list from the newest row on.
HistoryQueryFromNewest(rows, number) ==
    LET got == LimitOffset(rows, number, 0) IN [i \in DOMAIN got |-> got[i].title]

\* SELECT title ... ORDER BY edit_time DESC LIMIT $1 OFFSET 1 (fetch)
HistoryQuery(rows, number) ==
    LET got == LimitOffset(rows, number, 1) IN [i \in DOMAIN got |-> got[i].title]

\* formats.ordinal on the offsets tried.
ordinal(n) ==
    CASE n = 0 -> "0th" [] n = 1 -> "1st" [] n = 2 -> "2nd" [] n = 3 -> "3rd"
      [] OTHER -> "4th"

\* !title restore [offset], the database answering with `rows`.
title_restore_command(mod, offset, ok, rows) ==
    LET title == RestoreQuery(rows, offset) IN
    /\ ~OnlyReplied
    /\ IF ~mod
       THEN /\ NoTitleChange
            /\ last' = Step("title restore", NoUpdate, "", TRUE, <<>>, <<>>)
       ELSE IF title = "None"
       THEN /\ NoTitleChange
            /\ last' = Step("title restore", NoUpdate, "", TRUE,
                            <<<<"No change: the database doesn't keep such title.", "">>>>,
                            <<>>)
       ELSE /\ update_title(title, ok)
            /\ last' = Step("title restore", NoUpdate, "", TRUE,
                            IF ok THEN <<<<"Set the title to " \o ordinal(offset) \o " in history", title>>>>
                            ELSE <<>>,
                            <<Call("modify_channel", "title", title)>>)
    /\ TitleFrame

title_restore ==
    \E mod \in BOOLEAN, offset \in 0..MaxOffset,
       rows \in OrderByEditTimeDesc(ttv_stream_titles) :
        \E ok \in IF mod /\ RestoreQuery(rows, offset) # "None" THEN BOOLEAN ELSE {TRUE} :
            title_restore_command(mod, offset, ok, rows)

\* enumerate(history_titles, start=1): one message per title, numbered.
Numeral(i) == CASE i = 1 -> "1." [] i = 2 -> "2." [] i = 3 -> "3." [] OTHER -> "4."
Numbered(titles) == [i \in DOMAIN titles |-> <<Numeral(i), titles[i]>>]

\* The reply of !title history.
HistoryReply(history_titles) ==
    IF history_titles # <<>> THEN Numbered(history_titles)
    ELSE <<<<"Database doesn't have any titles saved.", "">>>>

\* !title history [number], the database answering with `rows`.
title_history_command(mod, number, rows) ==
    /\ ~OnlyReplied
    /\ NoTitleChange
    /\ last' = Step("title history", NoUpdate, "", TRUE,
                    IF ~mod THEN <<>> ELSE HistoryReply(HistoryQuery(rows, number)), <<>>)
    /\ TitleFrame

title_history ==
    \E mod \in BOOLEAN, number \in 0..MaxOffset,
       rows \in OrderByEditTimeDesc(ttv_stream_titles) :
        title_history_command(mod, number, rows)

\* ---------------------------------------------------------- specification
Next ==
    \/ fetch_channel_info
    \/ start_tracking
    \/ game
    \/ title_group
    \/ title_set
    \/ title_restore
    \/ title_history
    \/ channel_update
    \/ channel_update_resume
    \/ clear_the_database
    \/ ExternalChange
    \/ Advance

Spec == Init /\ [][Next]_vars

\* The events and the start-up task alone.
InitEvents == Constructed([steps |-> MaxEventSteps, handlers |-> MaxOverlap])

NextEvents ==
    \/ fetch_channel_info
    \/ start_tracking
    \/ channel_update
    \/ channel_update_resume
    \/ clear_the_database
    \/ ExternalChange
    \/ Advance

SpecEvents == InitEvents /\ [][NextEvents]_vars

\* The game and title commands with the events, in longer runs from an empty
\* history.
InitWindows ==
    /\ Constructed([steps |-> MaxWindowSteps, handlers |-> MaxHandlers])
    /\ ttv_stream_titles = {}

NextWindows ==
    \/ fetch_channel_info
    \/ start_tracking
    \/ game
    \/ title_group
    \/ channel_update
    \/ channel_update_resume
    \/ ExternalChange
    \/ Advance

SpecWindows == InitWindows /\ [][NextWindows]_vars

\* !title restore with the events, in longer runs.
InitTitles == Constructed([steps |-> MaxTitleSteps, handlers |-> MaxHandlers])

NextTitles ==
    \/ fetch_channel_info
    \/ start_tracking
    \/ title_restore
    \/ channel_update
    \/ channel_update_resume
    \/ ExternalChange
    \/ Advance

SpecTitles == InitTitles /\ [][NextTitles]_vars


\* -------------------------------------------------------------- properties
\* The last step was the start of a channel_update handler (the event arrived).
Arrived == last.op = "channel_update" /\ last.from = "start"
\* The game announcements among the messages of the last step.
GameAnnouncements ==
    {i \in DOMAIN last.msgs : last.msgs[i][1] = "Game was changed to"}
\* The title announcements among them.
TitleAnnouncements ==
    {i \in DOMAIN last.msgs : last.msgs[i][1] = "Title was changed to"}
\* Ticks between the last stamp of game_updated_dt and the `now` of the handler
\* of the last step (a handler step changes neither).
SinceGameStamp == last.now - game_updated_dt

\* C1: a channel_update event that arrives at most 15 seconds after
\* game_updated_dt was stamped and reports a game other than the tracked one
\* posts no game announcement; and every handler that runs to its end leaves
\* game_tracked equal to the game its event reported.
C1_EchoSuppressed ==
    /\ (Arrived /\ last.before.category_name # last.update.category_name
            /\ SinceGameStamp >= 0 /\ SinceGameStamp <= WindowSeconds * Second)
        => GameAnnouncements = {}
    /\ (last.op = "channel_update" /\ last.done)
        => game_tracked = last.update.category_name

\* An echo of !game arrived inside the window, while another game was tracked,
\* was not announced, and its handler set game_tracked.
C1_Witness ==
    /\ Arrived /\ last.done
    /\ last.before.category_name \notin {last.update.category_name, "idk"}
    /\ SinceGameStamp = WindowSeconds * Second
    /\ last.msgs = <<>>
    /\ game_tracked = last.update.category_name

\* C2: once the start-up fetch has set the tracked game, a channel_update
\* event that reports a game other than the tracked one more than 15 seconds
\* after the last stamp of game_updated_dt (the start-up value, an hour before
\* construction, included) posts exactly one game announcement, naming the
\* reported game.
C2_ExternalAnnounced ==
    (Arrived /\ tracking.pc = "done"
        /\ last.before.category_name \notin {last.update.category_name, "idk"}
        /\ SinceGameStamp > WindowSeconds * Second)
    => /\ Cardinality(GameAnnouncements) = 1
       /\ last.msgs[1] = <<"Game was changed to", last.update.category_name>>

\* C3: with no channel_update handler in flight and every event delivered, the
\* tracked game and title are those of the last delivered event (the channel's,
\* then), or the start-up fetch's when no event was delivered yet.
C3_TrackedIsLatest ==
    (handlers = <<>> /\ events = <<>>)
    => IF delivered = 1
       THEN game_tracked = channel.game_name /\ title_tracked = channel.title
       ELSE tracking.pc = "done"
            => /\ game_tracked = tracking.info.category_name
               /\ title_tracked = tracking.info.title

\* C4: the title history holds at most one row per title, and the row of a
\* title that is reported again keeps the time of the latest event that
\* reported it: no step adds a second row for a title or moves a title's
\* edit_time back to the time of an earlier event.
C4_UpsertKeepsLatest ==
    [][ /\ \A r, s \in ttv_stream_titles' : r.title = s.title => r = s
        /\ \A r \in ttv_stream_titles, s \in ttv_stream_titles' :
               r.title = s.title => s.edit_time >= r.edit_time ]_vars

\* The tracker is at rest: the start-up fetch is done, no event is waiting
\* and no handler is suspended.
Quiescent == tracking.pc = "done" /\ events = <<>> /\ handlers = <<>>

\* The ordered rows without the row of the channel's current title.
ExcludingCurrent(rows) == SelectSeq(rows, LAMBDA r : r.title # channel.title)

NoTitlesSaved == <<<<"Database doesn't have any titles saved.", "">>>>

C8_ClearSkipsSearch ==
    [][ \A game_name \in {"clear", "Clear"}, ok \in BOOLEAN, up \in BOOLEAN :
            game_command(TRUE, game_name, ok, up)
            => /\ last'.calls = <<Call("modify_channel", "game_id", "0")>>
               /\ game_updated_dt' = clock
               /\ UNCHANGED <<game_tracked, title_tracked, title_updated_dt, ttv_stream_titles>>
               /\ ok => /\ channel' = [channel EXCEPT !.game_name = NoCategory]
                        /\ last'.msgs = <<<<"Set game to", "No game category">>>> ]_vars

\* A moderator cleared the category of a channel that had one, some time
\* after start-up.
C8_Witness ==
    /\ last.op = "game"
    /\ last.calls = <<Call("modify_channel", "game_id", "0")>>
    /\ last.msgs = <<<<"Set game to", "No game category">>>>
    /\ channel.game_name = NoCategory
    /\ events # <<>>
    /\ game_updated_dt = clock
    /\ clock > 0

GameRefusal == <<<<"Only moderators are allowed to change game name", "">>>>
TitleRefusal == <<<<"Only moderators are allowed to change title", "">>>>

\* C9: when a chatter who is not a moderator issues !game <name> (the name
\* "clear" included) or !title <text>, the command sends one refusal message,
\* makes no provider call (no modify_channel, no fetch_games) and leaves the
\* tracked game and title, both change times, the history and the channel as
\* they were.
C9_NonModeratorRefused ==
    [][ /\ \A game_name \in GameArgs \ {""}, ok \in BOOLEAN, up \in BOOLEAN :
               game_command(FALSE, game_name, ok, up)
               => /\ last'.msgs = GameRefusal
                  /\ last'.calls = <<>>
                  /\ UNCHANGED <<tracker, ttv_stream_titles, channel, events>>
        /\ \A title \in Titles, ok \in BOOLEAN :
               title_group_command(FALSE, title, ok)
               => /\ last'.msgs = TitleRefusal
                  /\ last'.calls = <<>>
                  /\ UNCHANGED <<tracker, ttv_stream_titles, channel, events>> ]_vars

\* A chatter who is not a moderator was refused a title change after the
\* tracker had started and time had passed.
C9_Witness ==
    /\ last.op = "title"
    /\ last.msgs = TitleRefusal
    /\ last.calls = <<>>
    /\ tracking.pc = "done"
    /\ clock > 0

\* C10: when the search has no game for a moderator's !game <name>, or the
\* history has no row at the offset of a moderator's !title restore, the
\* command sends one failure message, calls no modify_channel, and leaves both
\* change times, the tracked game and title, the history and the channel as
\* they were.
C10_NotFoundChangesNothing ==
    [][ /\ \A game_name \in GameArgs \ {"", "clear", "Clear"}, ok \in BOOLEAN :
               (game_command(TRUE, game_name, ok, TRUE)
                   /\ game_keywords(game_name) \notin GameNames)
               => /\ last'.msgs = <<<<"Couldn't find any games with such a name", "">>>>
                  /\ last'.calls = <<Call("fetch_games", "names", game_keywords(game_name))>>
                  /\ UNCHANGED <<tracker, ttv_stream_titles, channel, events>>
        /\ \A offset \in 0..MaxOffset, ok \in BOOLEAN,
              rows \in OrderByEditTimeDesc(ttv_stream_titles) :
               (title_restore_command(TRUE, offset, ok, rows) /\ offset >= Len(rows))
               => /\ last'.msgs = <<<<"No change: the database doesn't keep such title.", "">>>>
                  /\ last'.calls = <<>>
                  /\ UNCHANGED <<tracker, ttv_stream_titles, channel, events>> ]_vars

\* A moderator asked for a game the search does not know, after the tracker
\* had started and time had passed.
C10_Witness ==
    /\ last.op = "game"
    /\ last.msgs = <<<<"Couldn't find any games with such a name", "">>>>
    /\ last.calls = <<Call("fetch_games", "names", "nosuch")>>
    /\ tracking.pc = "done"
    /\ clock > 0

\* The step ran a channel_update handler up to the test of line 199: it did
\* not stop at an announcement and is not the resumption after the write.
ReachesRecord == last'.op = "channel_update" /\ last'.msgs = <<>> /\ last'.from # "assign"

\* C11: a channel_update handler that reaches the history write with a title
\* other than title_tracked upserts that title with the handler's `now`,
\* whatever the time since title_updated_dt and whether or not it announced
\* anything; with the title equal to title_tracked it writes nothing; and no
\* other step of a handler touches the history.
C11_HistoryWriteIgnoresWindow ==
    [][ last'.op = "channel_update"
        => IF ReachesRecord /\ title_tracked # last'.update.title
           THEN /\ [title |-> last'.update.title, edit_time |-> last'.now] \in ttv_stream_titles'
                /\ \A r \in ttv_stream_titles' :
                       r.title = last'.update.title => r.edit_time = last'.now
                /\ \A r \in ttv_stream_titles :
                       r.title # last'.update.title => r \in ttv_stream_titles'
                /\ \A r \in ttv_stream_titles' :
                       r.title # last'.update.title => r \in ttv_stream_titles
           ELSE ttv_stream_titles' = ttv_stream_titles ]_vars

\* The echo of a moderator's title change arrived inside the window while
\* another title was tracked: nothing was announced and the title was recorded
\* with the handler's time.
C11_Witness ==
    /\ Arrived
    /\ last.msgs = <<>>
    /\ last.before.title \notin {last.update.title, "idk"}
    /\ last.now - title_updated_dt >= 0
    /\ last.now - title_updated_dt <= WindowSeconds * Second
    /\ [title |-> last.update.title, edit_time |-> last.now] \in ttv_stream_titles
    /\ clock > 0

\* Ticks between the last stamp of title_updated_dt and the `now` of the
\* handler of the last step.
SinceTitleStamp == last.now - title_updated_dt

\* C12: a game command leaves title_updated_dt alone and a title command
\* leaves game_updated_dt alone; and, once the start-up fetch has set the
\* tracked values, an event that reports another title at most 15 seconds
\* after the last stamp of game_updated_dt and more than 15 seconds after the
\* last stamp of title_updated_dt posts exactly one title announcement naming
\* it, and symmetrically for the game.
C12_WindowsIndependent ==
    [][ /\ last'.op = "game" => title_updated_dt' = title_updated_dt
        /\ last'.op = "title" => game_updated_dt' = game_updated_dt
        /\ (Arrived /\ tracking.pc = "done"
               /\ last.before.title \notin {last.update.title, "idk"}
               /\ SinceGameStamp >= 0 /\ SinceGameStamp <= WindowSeconds * Second
               /\ SinceTitleStamp > WindowSeconds * Second)'
           => /\ Cardinality(TitleAnnouncements') = 1
              /\ \E i \in DOMAIN last'.msgs :
                     last'.msgs[i] = <<"Title was changed to", last'.update.title>>
        /\ (Arrived /\ tracking.pc = "done"
               /\ last.before.category_name \notin {last.update.category_name, "idk"}
               /\ SinceTitleStamp >= 0 /\ SinceTitleStamp <= WindowSeconds * Second
               /\ SinceGameStamp > WindowSeconds * Second)'
           => /\ Cardinality(GameAnnouncements') = 1
              /\ \E i \in DOMAIN last'.msgs :
                     last'.msgs[i] = <<"Game was changed to", last'.update.category_name>>
      ]_vars

\* What a command whose modify_channel call fails leaves as it was.
FailedFrame == UNCHANGED <<game_tracked, title_tracked, ttv_stream_titles, channel, events>>

\* C13: when modify_channel fails, a moderator's !game (clear or a game the
\* search finds) has stamped game_updated_dt with the time of the attempt, and
\* a moderator's !title, !title set or !title restore of an existing row has
\* stamped title_updated_dt; no confirmation is sent, the tracked game and
\* title and the channel are unchanged, the other stamp is untouched; and an
\* event reporting another game (title) at most 15 seconds after a stamp of
\* game_updated_dt (title_updated_dt) posts no game (title) announcement.
C13_StampSurvivesFailure ==
    [][ /\ \A game_name \in {"clear", "Clear", "dota"} :
               game_command(TRUE, game_name, FALSE, TRUE)
               => /\ game_updated_dt' = clock
                  /\ title_updated_dt' = title_updated_dt
                  /\ last'.msgs = <<>>
                  /\ last'.calls[Len(last'.calls)][1] = "modify_channel"
                  /\ FailedFrame
        /\ \A title \in Titles :
               (title_group_command(TRUE, title, FALSE) \/ title_set_command(TRUE, title, FALSE))
               => /\ title_updated_dt' = clock
                  /\ game_updated_dt' = game_updated_dt
                  /\ last'.msgs = <<>>
                  /\ last'.calls = <<Call("modify_channel", "title", title)>>
                  /\ FailedFrame
        /\ \A offset \in 0..MaxOffset, rows \in OrderByEditTimeDesc(ttv_stream_titles) :
               (title_restore_command(TRUE, offset, FALSE, rows) /\ offset < Len(rows))
               => /\ title_updated_dt' = clock
                  /\ game_updated_dt' = game_updated_dt
                  /\ last'.msgs = <<>>
                  /\ FailedFrame
        /\ (Arrived /\ last.before.category_name # last.update.category_name
               /\ SinceGameStamp >= 0 /\ SinceGameStamp <= WindowSeconds * Second)'
           => GameAnnouncements' = {}
        /\ (Arrived /\ last.before.title # last.update.title
               /\ SinceTitleStamp >= 0 /\ SinceTitleStamp <= WindowSeconds * Second)'
           => TitleAnnouncements' = {}
      ]_vars

\* A moderator's title command failed at modify_channel some time after
\* start-up: the stamp is the time of the attempt, nothing was confirmed and
\* no event is on its way.
C13_Witness ==
    /\ last.op \in {"title", "title set", "title restore"}
    /\ last.calls # <<>>
    /\ last.calls[1][1] = "modify_channel"
    /\ last.msgs = <<>>
    /\ events = <<>>
    /\ title_updated_dt = clock
    /\ clock > 0
    /\ tracking.pc = "done"
    /\ title_tracked = channel.title

\* Every !game that stamped game_updated_dt failed at modify_channel and no
\* title command has stamped title_updated_dt: the events handled since are
\* those of changes made elsewhere.
OnlyFailedAttempts ==
    /\ attempt.game = "failed"
    /\ title_updated_dt = 0 - StartupHours * Hour

\* C14 as stated: after a failed !game, once the handler of one event of an
\* external change has run to its end, an event that reports a further change
\* of game within the 15 seconds after the failed attempt posts exactly one
\* game announcement.
C14_SuppressionResets ==
    [][ (OnlyFailedAttempts /\ attempt.handled >= 1 /\ tracking.pc = "done"
            /\ (Arrived /\ last.before.category_name \notin {last.update.category_name, "idk"}
                   /\ SinceGameStamp >= 0 /\ SinceGameStamp <= WindowSeconds * Second)')
        => /\ Cardinality(GameAnnouncements') = 1
           /\ last'.msgs[1] = <<"Game was changed to", last'.update.category_name>> ]_vars

\* C14 amended: no event resets the suppression.  A channel_update handler
\* never assigns game_updated_dt or title_updated_dt; after a failed !game,
\* however many events were handled since, an event that reports another game
\* at most 15 seconds after the attempt posts no game announcement (and its
\* handler, running to the end, still sets game_tracked), and one that
\* reports another game 16 seconds or more, and less than a day, after the
\* attempt posts exactly one.
C14_SuppressionLastsTheWindow ==
    [][ /\ last'.op = "channel_update" => UNCHANGED <<game_updated_dt, title_updated_dt>>
        /\ (attempt.game = "failed"
               /\ (Arrived /\ last.before.category_name # last.update.category_name
                      /\ SinceGameStamp >= 0 /\ SinceGameStamp <= WindowSeconds * Second)')
           => /\ GameAnnouncements' = {}
              /\ last'.done => game_tracked' = last'.update.category_name
        /\ (attempt.game = "failed"
               /\ (Arrived /\ last.before.category_name # last.update.category_name
                      /\ SinceGameStamp >= (WindowSeconds + 1) * Second
                      /\ SinceGameStamp < Day)')
           => /\ Cardinality(GameAnnouncements') = 1
              /\ last'.msgs[1] = <<"Game was changed to", last'.update.category_name>>
      ]_vars

\* After a failed !game, the second event of an external change of game
\* inside the window was handled to its end: it was not announced either.
C14_Witness ==
    /\ OnlyFailedAttempts
    /\ attempt.handled = 2
    /\ tracking.pc = "done"
    /\ Arrived /\ last.done
    /\ last.before.category_name \notin {last.update.category_name, "idk"}
    /\ SinceGameStamp >= 0 /\ SinceGameStamp <= WindowSeconds * Second
    /\ last.msgs = <<>>
    /\ game_tracked = last.update.category_name

\* C15: once every event is delivered and every handler has finished, if the
\* history recorded since start-up the title the channel had before its
\* current one, it holds the current title, the title of the last title
\* change delivered, with the greatest edit_time; and a handler that runs to
\* its end leaves the tracked game and title equal to what its event reported.
C15_InterleavingBenign ==
    /\ (handlers = <<>> /\ events = <<>> /\ tracking.pc = "done" /\ delivered = 1
            /\ \E p \in ttv_stream_titles : p.title = previous /\ p.edit_time >= 0)
        => \E r \in ttv_stream_titles :
               /\ r.title = channel.title
               /\ \A s \in ttv_stream_titles : s.edit_time <= r.edit_time
    /\ (last.op = "channel_update" /\ last.done)
        => /\ game_tracked = last.update.category_name
           /\ title_tracked = last.update.title

\* The rows of the table that no other row is newer than.
Newest(table) == {r \in table : \A s \in table : s.edit_time <= r.edit_time}

====
